---------------------------- MODULE Spec2Model ----------------------------
(***************************************************************************)
(* Scan result ingestion, persistence and scoring pipeline of the Semgrep  *)
(* webhook service (src/monitoring/monitoring_module.py and its callers).  *)
(*                                                                         *)
(* The SQLite store is modelled as two sequences of committed rows plus    *)
(* the uncommitted rows of the one open write transaction.  Every SQL      *)
(* statement is one atomic step; a read statement sees committed rows      *)
(* only.  Time is a counter of clock ticks, Resolution ticks to a second:   *)
(* now is the time in UTC, which SQLite's 'now' reads, and utc_offset is   *)
(* what the process's time zone adds to it, which datetime.now() reads.    *)
(*                                                                         *)
(* The webhook service (src/main.py, src/semgrep_runner.py) keeps no state *)
(* between requests; one request is modelled from its inputs to its        *)
(* response.                                                               *)
(***************************************************************************)
EXTENDS Integers, Sequences, FiniteSets, TLC

(***************************************************************************)
(* Bounds of the model.                                                    *)
(***************************************************************************)
MaxFindings == 2        \* raw result records per scanner output
MaxIngest   == 2        \* calls of parse_semgrep_output in one behaviour
MaxTick     == 2        \* clock ticks in one behaviour
Resolution  == 2        \* clock ticks per second
MaxCount    == 11       \* severity counts given to the score calculator
MaxRecords  == 3        \* raw result records per scanner output of a request
MaxDay      == 2        \* days that pass in one behaviour

SecondsPerDay == 24 * 60 * 60
TicksPerDay   == Resolution * SecondsPerDay

(***************************************************************************)
(* JSON values.  Absent: the key is not in the dict.  Null: JSON null,     *)
(* Python None.  An optional Python value (Optional[...], a fetchone()     *)
(* row) is a sequence of length 0 (None) or 1.                             *)
(***************************************************************************)
Absent == "<absent>"
Null   == "<null>"

RawSeverities == {"ERROR", "WARNING", "INFO", "CRITICAL", Null, Absent}
RawCheckIds   == {"a"}
RawRepos      == {"r1", Absent}
Repositories  == {"r1", "unknown"}

RawRecords == [severity : RawSeverities, check_id : RawCheckIds]

SeqUpTo(S, n) == UNION {[1..k -> S] : k \in 0..n}

\* One scanner output file: whether it has the key 'results', and then
\* data['results']; data['paths']['_comment']; data['version'].
RawOutputsOver(records, n, repos) ==
    [has_results : {TRUE}, results : SeqUpTo(records, n),
     repo : repos, version : {Absent}]
    \cup [has_results : {FALSE}, results : {<<>>},
          repo : repos, version : {Absent}]

RawOutputs == RawOutputsOver(RawRecords, MaxFindings, RawRepos)

(***************************************************************************)
(* Helpers.                                                                *)
(***************************************************************************)
Get(d, k, default) == IF k \in DOMAIN d THEN d[k] ELSE default

Or(v, default) == IF v = Absent THEN default ELSE v

RECURSIVE SumOver(_, _)
SumOver(S, f) ==
    IF S = {} THEN 0
    ELSE LET x == CHOOSE y \in S : TRUE
         IN  f[x] + SumOver(S \ {x}, f)

RECURSIVE SortedSeq(_)
\* the integers of S in ascending order
SortedSeq(S) ==
    IF S = {} THEN <<>>
    ELSE LET m == CHOOSE x \in S : \A y \in S : x <= y
         IN  <<m>> \o SortedSeq(S \ {m})

(***************************************************************************)
(* SecurityScoreCalculator                                                 *)
(***************************************************************************)
WeightError   == 10
WeightWarning == 5
WeightInfo    == 1

Max(a, b) == IF a >= b THEN a ELSE b

\* round(score, 2) of a Python int is that int
Round2(x) == x

\* mutant: the score is not held at 0 from below
calculate_score_no_floor(scan_result) ==
    100 - (scan_result.error_count * WeightError
           + scan_result.warning_count * WeightWarning
           + scan_result.info_count * WeightInfo)

\* mutant: error_count does not enter the penalty
calculate_score_no_errors(scan_result) ==
    Max(0, 100 - (scan_result.warning_count * WeightWarning
                  + scan_result.info_count * WeightInfo))

calculate_score(scan_result) ==
    LET penalty == scan_result.error_count * WeightError
                   + scan_result.warning_count * WeightWarning
                   + scan_result.info_count * WeightInfo
        score   == Max(0, 100 - penalty)
    IN  Round2(score)

\* mutant: the bands begin above 90, 80, 70, 60
get_grade_strict(score) ==
    IF score > 90 THEN "A"
    ELSE IF score > 80 THEN "B"
    ELSE IF score > 70 THEN "C"
    ELSE IF score > 60 THEN "D"
    ELSE "F"

get_grade(score) ==
    IF score >= 90 THEN "A"
    ELSE IF score >= 80 THEN "B"
    ELSE IF score >= 70 THEN "C"
    ELSE IF score >= 60 THEN "D"
    ELSE "F"

(***************************************************************************)
(* SemgrepResultParser.parse_semgrep_output, at clock value t              *)
(***************************************************************************)
\* strftime('%Y%m%d_%H%M%S'): the clock value cut to whole seconds
ScanIdOf(t) == t \div Resolution

\* isoformat(): the clock value at full resolution.  The strings order as
\* the times do and SQLite's datetime() and DATE() read them back, so the
\* timestamp is kept as the tick count it stands for.
IsoFormat(t) == t

\* data.get('results', [])
RawResults(data) == IF data.has_results THEN data.results ELSE <<>>

\* r.get('extra', {}).get('severity', 'INFO'): the default replaces an
\* absent key only, a JSON null stays None
SeverityOf(r) == Or(r.severity, "INFO")

\* mutant: the tally counts the raw values, a missing severity as none
severity_count_raw(results, s) ==
    Cardinality({i \in DOMAIN results : results[i].severity = s})

severity_count(results, s) ==
    Cardinality({i \in DOMAIN results : SeverityOf(results[i]) = s})

ParseScanResult(data, t) ==
    LET results == RawResults(data)
    IN  [scan_id        |-> ScanIdOf(t),
         repository     |-> Or(data.repo, "unknown"),
         commit_sha     |-> Or(data.version, "unknown"),
         timestamp      |-> IsoFormat(t),
         total_findings |-> Len(results),
         error_count    |-> severity_count(results, "ERROR"),
         warning_count  |-> severity_count(results, "WARNING"),
         info_count     |-> severity_count(results, "INFO"),
         scan_duration  |-> 0,
         rules_applied  |->
             Cardinality({Or(results[i].check_id, "") : i \in DOMAIN results})]

ParseFindings(data) ==
    LET results == RawResults(data)
    IN  [i \in DOMAIN results |->
            [rule_id     |-> Or(results[i].check_id, "unknown"),
             severity    |-> SeverityOf(results[i]),
             category    |-> "unknown",
             file_path   |-> "",
             line_number |-> 0,
             message     |-> ""]]

(***************************************************************************)
(* MonitoringDatabase: the read statements, over committed tables          *)
(* sr (scan_results) and fd (findings).                                    *)
(***************************************************************************)
\* SELECT COUNT(*) FROM scan_results WHERE repository = ?
CountScans(sr, repository) ==
    Cardinality({i \in DOMAIN sr : sr[i].repository = repository})

\* findings f JOIN scan_results s ON f.scan_id = s.scan_id
\* WHERE s.repository = ?  (the finding rows, by position)
JoinedFindings(sr, fd, repository) ==
    {i \in DOMAIN fd :
        \E j \in DOMAIN sr : /\ sr[j].scan_id = fd[i].scan_id
                             /\ sr[j].repository = repository}

\* mutant: only the findings of the repository's latest scan are counted
SeverityCountsLatest(sr, fd, repository) ==
    LET R == {j \in DOMAIN sr : sr[j].repository = repository}
        L == {j \in R : \A k \in R : sr[j].timestamp >= sr[k].timestamp}
        J == {i \in DOMAIN fd : \E j \in L : sr[j].scan_id = fd[i].scan_id}
    IN  [s \in {fd[i].severity : i \in J} |->
            Cardinality({i \in J : fd[i].severity = s})]

\* SELECT f.severity, COUNT(*) ... GROUP BY f.severity, as dict(fetchall())
SeverityCounts(sr, fd, repository) ==
    LET J == JoinedFindings(sr, fd, repository)
    IN  [s \in {fd[i].severity : i \in J} |->
            Cardinality({i \in J : fd[i].severity = s})]

\* SELECT f.rule_id, COUNT(*) as cnt ... GROUP BY f.rule_id
RuleGroups(sr, fd, repository) ==
    LET J == JoinedFindings(sr, fd, repository)
    IN  {[rule_id |-> r, count |-> Cardinality({i \in J : fd[i].rule_id = r})] :
            r \in {fd[i].rule_id : i \in J}}

TopLimit == 5

\* ... ORDER BY cnt DESC LIMIT 5: every row order SQLite may produce; rows
\* of equal cnt come in any order
TopIssuesResults(sr, fd, repository) ==
    LET G == RuleGroups(sr, fd, repository)
        n == IF Cardinality(G) < TopLimit THEN Cardinality(G) ELSE TopLimit
    IN  {s \in [1..n -> G] :
            /\ \A i, j \in 1..n : i < j => s[i] # s[j] /\ s[i].count >= s[j].count
            /\ \A g \in G : (\A i \in 1..n : s[i] # g) =>
                            \A i \in 1..n : s[i].count >= g.count}

\* SELECT timestamp, total_findings, scan_duration ... ORDER BY timestamp
\* DESC LIMIT 1, as fetchone(): no row, or one of the latest rows
LastScanResults(sr, repository) ==
    LET R == {i \in DOMAIN sr : sr[i].repository = repository}
    IN  IF R = {} THEN {<<>>}
        ELSE {<<[timestamp |-> sr[i].timestamp,
                 findings  |-> sr[i].total_findings,
                 duration  |-> sr[i].scan_duration]>> :
                i \in {k \in R : \A m \in R : sr[k].timestamp >= sr[m].timestamp}}

\* datetime(x): the time cut to whole seconds;  DATE(x): its calendar day
DateTime(t) == t \div Resolution
Date(t)     == t \div TicksPerDay

\* "if repository:" -- None (Null) and the empty string are false
Truthy(v) == v \notin {Null, ""}

\* the WHERE clause of get_trend_data at clock value t
TrendRows(sr, repository, days, t) ==
    {i \in DOMAIN sr :
        /\ DateTime(sr[i].timestamp) >= DateTime(t) - days * SecondsPerDay
        /\ (Truthy(repository) => sr[i].repository = repository)}

get_trend_data(sr, repository, days, t) ==
    LET R     == TrendRows(sr, repository, days, t)
        dates == SortedSeq({Date(sr[i].timestamp) : i \in R})
        On(d) == {i \in R : Date(sr[i].timestamp) = d}
    IN  [k \in DOMAIN dates |->
            [date     |-> dates[k],
             errors   |-> SumOver(On(dates[k]), [i \in R |-> sr[i].error_count]),
             warnings |-> SumOver(On(dates[k]), [i \in R |-> sr[i].warning_count]),
             infos    |-> SumOver(On(dates[k]), [i \in R |-> sr[i].info_count])]]

ReportTrendDays == 7

(***************************************************************************)
(* State.                                                                  *)
(***************************************************************************)
VARIABLES
    now,               \* the clock, in ticks (UTC)
    utc_offset,        \* local time minus UTC of the process, in ticks
    scan_results,      \* table scan_results: committed rows, in insert order
    findings,          \* table findings: committed rows, id = position
    w_pc,              \* ingestion: "idle", "parsed", "insert", "returned"
    scan_result,       \* the ScanResult parse_semgrep_output returned (0 or 1)
    parsed_findings,   \* the FindingDetail list it returned
    txn_scan_results,  \* rows the open transaction added to scan_results
    txn_findings,      \* rows the open transaction added to findings
    w_error,           \* how the last ingestion ended
    w_has_results,     \* history: the file parsed last had the key 'results'
    call_scan_results, \* history: scan_results when save_scan_result began
    call_findings,     \* history: findings when save_scan_result began
    issued,            \* history: the scan_ids of all parse calls so far
    r_pc,              \* query: "idle", "count", "severity", "top", "last",
                       \*        "score", "trend", "done"
    r_op,              \* "none", "stats", "trend", "report"
    r_repository,      \* its repository argument
    r_days,            \* its days argument (get_trend_data)
    total_scans,       \* locals of get_repository_stats
    severity_counts,
    top_issues,
    stats,             \* the dict get_repository_stats returned (0 or 1)
    score,             \* locals of generate_summary_report
    grade,
    trend,             \* the list get_trend_data returned
    c_pc,              \* score calculator run: "off", "input", "scored", "graded"
    c_summary,         \* its ScanResult argument (the counts)
    c_score,
    c_grade,
    c_prev,            \* the argument and score of the run before (0 or 1)
    m_pc,              \* main.py request: "off", "ready", "done"
    m_op,              \* "none", "report" (GET /report), "webhook" (POST /webhook)
    m_data,            \* the scanner output of the request's scan (result.json)
    m_result,          \* what run_semgrep returned (0 or 1)
    m_normalized,      \* what normalize_semgrep_results returned (0 or 1)
    m_response         \* the HTTP response (0 or 1)

storeVars  == <<scan_results, findings>>
writerVars == <<w_pc, scan_result, parsed_findings, txn_scan_results,
                txn_findings, w_error, w_has_results, call_scan_results,
                call_findings, issued>>
readerVars == <<r_pc, r_op, r_repository, r_days, total_scans, severity_counts,
                top_issues, stats, score, grade, trend>>
calcVars   == <<c_pc, c_summary, c_score, c_grade, c_prev>>
mainVars   == <<m_pc, m_op, m_data, m_result, m_normalized, m_response>>
clockVars  == <<now, utc_offset>>
vars       == <<clockVars, storeVars, writerVars, readerVars, calcVars, mainVars>>

NoCounts == [s \in {} |-> 0]

WriterInit ==
    /\ w_pc = "idle"
    /\ scan_result = <<>>
    /\ parsed_findings = <<>>
    /\ txn_scan_results = <<>>
    /\ txn_findings = <<>>
    /\ w_error = "none"
    /\ w_has_results = TRUE
    /\ call_scan_results = <<>>
    /\ call_findings = <<>>
    /\ issued = <<>>

ReaderInit ==
    /\ r_pc = "idle"
    /\ r_op = "none"
    /\ r_repository = Null
    /\ r_days = 0
    /\ total_scans = 0
    /\ severity_counts = NoCounts
    /\ top_issues = <<>>
    /\ stats = <<>>
    /\ score = 0
    /\ grade = ""
    /\ trend = <<>>

CalcOff ==
    /\ c_pc = "off"
    /\ c_summary = [error_count |-> 0, warning_count |-> 0, info_count |-> 0]
    /\ c_score = 0
    /\ c_grade = ""
    /\ c_prev = <<>>

MainOff ==
    /\ m_pc = "off"
    /\ m_op = "none"
    /\ m_data = [version |-> "1"]
    /\ m_result = <<>>
    /\ m_normalized = <<>>
    /\ m_response = <<>>

\* MonitoringDatabase(): init_database leaves two empty tables; the
\* process runs in UTC
Init ==
    /\ now = 0
    /\ utc_offset = 0
    /\ scan_results = <<>>
    /\ findings = <<>>
    /\ WriterInit
    /\ ReaderInit
    /\ CalcOff
    /\ MainOff

(***************************************************************************)
(* The clock.                                                              *)
(***************************************************************************)
\* datetime.now(): the naive local time at UTC time t
LocalTime(t) == t + utc_offset

Tick ==
    /\ now < MaxTick
    /\ now' = now + 1
    /\ UNCHANGED <<utc_offset, storeVars, writerVars, readerVars, calcVars,
                   mainVars>>

\* a day passes between two calls
NextDay ==
    /\ now \div TicksPerDay < MaxDay
    /\ now' = now + TicksPerDay
    /\ UNCHANGED <<utc_offset, storeVars, writerVars, readerVars, calcVars,
                   mainVars>>

(***************************************************************************)
(* Ingestion: parse_semgrep_output, then save_scan_result, as the loop of  *)
(* monitoring_integration.py runs them.                                    *)
(***************************************************************************)
parse_semgrep_output(data, t) == <<ParseScanResult(data, t), ParseFindings(data)>>

Parse(data) ==
    /\ w_pc = "idle"
    /\ Len(issued) < MaxIngest
    /\ LET out == parse_semgrep_output(data, LocalTime(now))
       IN  /\ scan_result' = <<out[1]>>
           /\ parsed_findings' = out[2]
           /\ issued' = Append(issued, out[1].scan_id)
    /\ w_pc' = "parsed"
    /\ w_error' = "none"
    /\ w_has_results' = data.has_results
    /\ UNCHANGED <<clockVars, mainVars, storeVars, txn_scan_results,
                   txn_findings,
                   call_scan_results, call_findings, readerVars, calcVars>>

\* mutant: scan_id is no key of the table
NoPrimaryKey(rows, row) == FALSE

\* scan_id TEXT PRIMARY KEY, against the committed rows and the
\* transaction's own
PrimaryKeyViolation(rows, row) ==
    \E i \in DOMAIN rows : rows[i].scan_id = row.scan_id

\* repository, commit_sha TEXT NOT NULL (timestamp, an isoformat() string,
\* is never None)
ScanNotNullViolation(row) ==
    \/ row.repository = Null
    \/ row.commit_sha = Null

\* rule_id, severity TEXT NOT NULL (scan_id, an f-string, is never None)
FindingNotNullViolation(row) ==
    \/ row.rule_id = Null
    \/ row.severity = Null

FindingRow(scan_id, finding) ==
    [scan_id     |-> scan_id,
     rule_id     |-> finding.rule_id,
     severity    |-> finding.severity,
     category    |-> finding.category,
     file_path   |-> finding.file_path,
     line_number |-> finding.line_number,
     message     |-> finding.message]

\* conn.commit(): the transaction's rows become committed rows
CommitTxn ==
    /\ scan_results' = scan_results \o txn_scan_results
    /\ findings' = findings \o txn_findings
    /\ txn_scan_results' = <<>>
    /\ txn_findings' = <<>>

\* mutant: the rows written before the exception are committed
RollbackKeepsRows == CommitTxn

\* conn.rollback(): the transaction's rows are dropped
Rollback ==
    /\ txn_scan_results' = <<>>
    /\ txn_findings' = <<>>
    /\ UNCHANGED storeVars

\* an exception leaves the with-block: Connection.__exit__ rolls back and
\* the exception leaves save_scan_result
Raise(e) ==
    /\ Rollback
    /\ w_pc' = "returned"
    /\ w_error' = e

\* cursor.execute("INSERT INTO scan_results VALUES (...)"), the first
\* statement of save_scan_result; it opens the transaction
InsertScanResult ==
    /\ w_pc = "parsed"
    /\ call_scan_results' = scan_results
    /\ call_findings' = findings
    /\ \E io_ok \in BOOLEAN :
          IF ~io_ok
          THEN Raise("OperationalError")
          ELSE IF \/ PrimaryKeyViolation(scan_results \o txn_scan_results,
                                         scan_result[1])
                  \/ ScanNotNullViolation(scan_result[1])
          THEN Raise("IntegrityError")
          ELSE /\ txn_scan_results' = Append(txn_scan_results, scan_result[1])
               /\ w_pc' = "insert"
               /\ UNCHANGED <<storeVars, txn_findings, w_error>>
    /\ UNCHANGED <<clockVars, mainVars, scan_result, parsed_findings,
                   w_has_results, issued, readerVars, calcVars>>

\* cursor.execute("INSERT INTO findings (...) VALUES (...)"), one pass of
\* the loop over findings
InsertFinding ==
    /\ w_pc = "insert"
    /\ Len(txn_findings) < Len(parsed_findings)
    /\ LET row == FindingRow(scan_result[1].scan_id,
                             parsed_findings[Len(txn_findings) + 1])
       IN  \E io_ok \in BOOLEAN :
              IF ~io_ok
              THEN Raise("OperationalError")
              ELSE IF FindingNotNullViolation(row)
              THEN Raise("IntegrityError")
              ELSE /\ txn_findings' = Append(txn_findings, row)
                   /\ UNCHANGED <<storeVars, txn_scan_results, w_pc, w_error>>
    /\ UNCHANGED <<clockVars, mainVars, scan_result, parsed_findings,
                   w_has_results, call_scan_results, call_findings, issued,
                   readerVars, calcVars>>

\* conn.commit() after the loop, and the return of save_scan_result
Commit ==
    /\ w_pc = "insert"
    /\ Len(txn_findings) = Len(parsed_findings)
    /\ \E io_ok \in BOOLEAN :
          IF ~io_ok
          THEN Raise("OperationalError")
          ELSE /\ CommitTxn
               /\ w_pc' = "returned"
               /\ w_error' = "ok"
    /\ UNCHANGED <<clockVars, mainVars, scan_result, parsed_findings,
                   w_has_results, call_scan_results, call_findings, issued,
                   readerVars, calcVars>>

\* the loop body ends (or the exception ends the script); its locals go
IngestReturn ==
    /\ w_pc = "returned"
    /\ w_pc' = "idle"
    /\ scan_result' = <<>>
    /\ parsed_findings' = <<>>
    /\ w_error' = "none"
    /\ call_scan_results' = <<>>
    /\ call_findings' = <<>>
    /\ w_has_results' = TRUE
    /\ UNCHANGED <<clockVars, mainVars, storeVars, txn_scan_results,
                   txn_findings, issued,
                   readerVars, calcVars>>

(***************************************************************************)
(* Queries: get_repository_stats, get_trend_data, generate_summary_report. *)
(* sqlite3 opens no transaction for a SELECT: each statement reads the     *)
(* rows committed when it runs.                                            *)
(***************************************************************************)
TrendDays == {30}

StartStats(repository) ==
    /\ r_pc = "idle"
    /\ r_op' = "stats"
    /\ r_repository' = repository
    /\ r_pc' = "count"
    /\ UNCHANGED <<clockVars, mainVars, storeVars, writerVars, r_days,
                   total_scans,
                   severity_counts, top_issues, stats, score, grade, trend,
                   calcVars>>

StartTrend(repository, days) ==
    /\ r_pc = "idle"
    /\ r_op' = "trend"
    /\ r_repository' = repository
    /\ r_days' = days
    /\ r_pc' = "trend"
    /\ UNCHANGED <<clockVars, mainVars, storeVars, writerVars, total_scans,
                   severity_counts,
                   top_issues, stats, score, grade, trend, calcVars>>

\* generate_summary_report begins with self.db.get_repository_stats
StartReport(repository) ==
    /\ r_pc = "idle"
    /\ r_op' = "report"
    /\ r_repository' = repository
    /\ r_days' = ReportTrendDays
    /\ r_pc' = "count"
    /\ UNCHANGED <<clockVars, mainVars, storeVars, writerVars, total_scans,
                   severity_counts,
                   top_issues, stats, score, grade, trend, calcVars>>

StmtCount ==
    /\ r_pc = "count"
    /\ total_scans' = CountScans(scan_results, r_repository)
    /\ r_pc' = "severity"
    /\ UNCHANGED <<clockVars, mainVars, storeVars, writerVars, r_op,
                   r_repository, r_days,
                   severity_counts, top_issues, stats, score, grade, trend,
                   calcVars>>

StmtSeverity ==
    /\ r_pc = "severity"
    /\ severity_counts' = SeverityCounts(scan_results, findings, r_repository)
    /\ r_pc' = "top"
    /\ UNCHANGED <<clockVars, mainVars, storeVars, writerVars, r_op,
                   r_repository, r_days,
                   total_scans, top_issues, stats, score, grade, trend,
                   calcVars>>

StmtTop ==
    /\ r_pc = "top"
    /\ \E rows \in TopIssuesResults(scan_results, findings, r_repository) :
          top_issues' = rows
    /\ r_pc' = "last"
    /\ UNCHANGED <<clockVars, mainVars, storeVars, writerVars, r_op,
                   r_repository, r_days,
                   total_scans, severity_counts, stats, score, grade, trend,
                   calcVars>>

\* the dict get_repository_stats returns
StatsDict(repository, n, counts, top, last) ==
    [repository            |-> repository,
     total_scans           |-> n,
     severity_distribution |-> counts,
     top_issues            |-> top,
     last_scan             |-> last]

\* the last statement of get_repository_stats, and its return
StmtLast ==
    /\ r_pc = "last"
    /\ \E last \in LastScanResults(scan_results, r_repository) :
          stats' = <<StatsDict(r_repository, total_scans, severity_counts,
                               top_issues, last)>>
    /\ total_scans' = 0
    /\ severity_counts' = NoCounts
    /\ top_issues' = <<>>
    /\ r_pc' = IF r_op = "report" THEN "score" ELSE "done"
    /\ UNCHANGED <<clockVars, mainVars, storeVars, writerVars, r_op,
                   r_repository, r_days,
                   score, grade, trend, calcVars>>

\* mutant: a last scan without findings counts as no scan
HasLastScanFindings(st) ==
    st.last_scan # <<>> /\ st.last_scan[1].findings > 0

\* if stats['last_scan']:
HasLastScan(st) == st.last_scan # <<>>

\* the ScanResult generate_summary_report builds from the statistics
last_scan_result(st) ==
    [scan_id        |-> "",
     repository     |-> st.repository,
     commit_sha     |-> "",
     timestamp      |-> st.last_scan[1].timestamp,
     total_findings |-> st.last_scan[1].findings,
     error_count    |-> Get(st.severity_distribution, "ERROR", 0),
     warning_count  |-> Get(st.severity_distribution, "WARNING", 0),
     info_count     |-> Get(st.severity_distribution, "INFO", 0),
     scan_duration  |-> st.last_scan[1].duration,
     rules_applied  |-> 0]

ReportScore ==
    /\ r_pc = "score"
    /\ IF HasLastScan(stats[1])
       THEN /\ score' = calculate_score(last_scan_result(stats[1]))
            /\ grade' = get_grade(score')
       ELSE /\ score' = 0
            /\ grade' = "N/A"
    /\ r_pc' = "trend"
    /\ UNCHANGED <<clockVars, mainVars, storeVars, writerVars, r_op,
                   r_repository, r_days,
                   total_scans, severity_counts, top_issues, stats, trend,
                   calcVars>>

\* the one statement of get_trend_data, and its return (and with it the
\* return of generate_summary_report)
StmtTrend ==
    /\ r_pc = "trend"
    /\ trend' = get_trend_data(scan_results, r_repository, r_days, now)
    /\ r_pc' = "done"
    /\ UNCHANGED <<clockVars, mainVars, storeVars, writerVars, r_op,
                   r_repository, r_days,
                   total_scans, severity_counts, top_issues, stats, score,
                   grade, calcVars>>

\* the caller drops the result
QueryReturn ==
    /\ r_pc = "done"
    /\ r_pc' = "idle"
    /\ r_op' = "none"
    /\ r_repository' = Null
    /\ r_days' = 0
    /\ stats' = <<>>
    /\ score' = 0
    /\ grade' = ""
    /\ trend' = <<>>
    /\ UNCHANGED <<clockVars, mainVars, storeVars, writerVars, total_scans,
                   severity_counts,
                   top_issues, calcVars>>

(***************************************************************************)
(* Spec: one process, as monitoring_integration.py: ingestions and queries *)
(* follow one another, a query never overlaps an ingestion.                *)
(***************************************************************************)
NoQuery  == r_pc = "idle"
NoIngest == w_pc = "idle"

Next ==
    \/ Tick
    \/ \E data \in RawOutputs : NoQuery /\ Parse(data)
    \/ NoQuery /\ InsertScanResult
    \/ NoQuery /\ InsertFinding
    \/ NoQuery /\ Commit
    \/ NoQuery /\ IngestReturn
    \/ \E repository \in Repositories : NoIngest /\ StartStats(repository)
    \/ \E repository \in Repositories \cup {Null}, days \in TrendDays :
          NoIngest /\ StartTrend(repository, days)
    \/ \E repository \in Repositories : NoIngest /\ StartReport(repository)
    \/ NoIngest /\ StmtCount
    \/ NoIngest /\ StmtSeverity
    \/ NoIngest /\ StmtTop
    \/ NoIngest /\ StmtLast
    \/ NoIngest /\ ReportScore
    \/ NoIngest /\ StmtTrend
    \/ NoIngest /\ QueryReturn

Spec == Init /\ [][Next]_vars

(***************************************************************************)
(* SpecConc: two processes on one database file, one ingesting and one     *)
(* querying; their statements interleave freely.                           *)
(***************************************************************************)
ConcRecords == [severity : {"ERROR", Null}, check_id : RawCheckIds]
ConcOutputs ==
    {d \in RawOutputsOver(ConcRecords, MaxFindings, {"r1"}) : d.results # <<>>}

NextConc ==
    \/ Tick
    \/ \E data \in ConcOutputs : Parse(data)
    \/ InsertScanResult
    \/ InsertFinding
    \/ Commit
    \/ IngestReturn
    \/ StartStats("r1")
    \/ StartTrend("r1", ReportTrendDays)
    \/ StartReport("r1")
    \/ StmtCount
    \/ StmtSeverity
    \/ StmtTop
    \/ StmtLast
    \/ ReportScore
    \/ StmtTrend
    \/ QueryReturn

SpecConc == Init /\ [][NextConc]_vars

(***************************************************************************)
(* SpecScore: SecurityScoreCalculator alone, on every ScanResult whose     *)
(* counts are at most MaxCount; a second run changes error_count only.     *)
(***************************************************************************)
Counts == 0..MaxCount

InitScore ==
    /\ now = 0
    /\ utc_offset = 0
    /\ MainOff
    /\ scan_results = <<>>
    /\ findings = <<>>
    /\ WriterInit
    /\ ReaderInit
    /\ c_pc = "input"
    /\ c_summary \in [error_count : Counts, warning_count : Counts,
                      info_count : Counts]
    /\ c_score = 0
    /\ c_grade = ""
    /\ c_prev = <<>>

CalcScore ==
    /\ c_pc = "input"
    /\ c_score' = calculate_score(c_summary)
    /\ c_pc' = "scored"
    /\ UNCHANGED <<clockVars, mainVars, storeVars, writerVars, readerVars,
                   c_summary, c_grade,
                   c_prev>>

CalcGrade ==
    /\ c_pc = "scored"
    /\ c_grade' = get_grade(c_score)
    /\ c_pc' = "graded"
    /\ UNCHANGED <<clockVars, mainVars, storeVars, writerVars, readerVars,
                   c_summary, c_score,
                   c_prev>>

CalcAgain ==
    /\ c_pc = "graded"
    /\ c_prev = <<>>
    /\ \E e \in Counts \ {c_summary.error_count} :
          c_summary' = [c_summary EXCEPT !.error_count = e]
    /\ c_prev' = <<[summary |-> c_summary, score |-> c_score]>>
    /\ c_score' = 0
    /\ c_grade' = ""
    /\ c_pc' = "input"
    /\ UNCHANGED <<clockVars, mainVars, storeVars, writerVars, readerVars>>

NextScore ==
    \/ CalcScore
    \/ CalcGrade
    \/ CalcAgain

SpecScore == InitScore /\ [][NextScore]_vars

(***************************************************************************)
(* SpecTop: as Spec, for one repository whose raw records name two rules;  *)
(* the only query is get_repository_stats.                                 *)
(***************************************************************************)
TopRecords == [severity : {"ERROR"}, check_id : {"a", "b"}]
TopOutputs ==
    {d \in RawOutputsOver(TopRecords, MaxFindings, {"r1"}) : d.has_results}

NextTop ==
    \/ Tick
    \/ \E data \in TopOutputs : NoQuery /\ Parse(data)
    \/ NoQuery /\ InsertScanResult
    \/ NoQuery /\ InsertFinding
    \/ NoQuery /\ Commit
    \/ NoQuery /\ IngestReturn
    \/ NoIngest /\ StartStats("r1")
    \/ NoIngest /\ StmtCount
    \/ NoIngest /\ StmtSeverity
    \/ NoIngest /\ StmtTop
    \/ NoIngest /\ StmtLast
    \/ NoIngest /\ QueryReturn

SpecTop == Init /\ [][NextTop]_vars

(***************************************************************************)
(* SpecTrend: as Spec, over days and in a process whose time zone is UTC   *)
(* or nine hours ahead of it; the only query is get_trend_data.            *)
(***************************************************************************)
TicksPerHour == 60 * 60 * Resolution
UtcOffsets   == {0, 9 * TicksPerHour}

TrendWindows == {1}

TrendRecords == [severity : {"ERROR", "INFO"}, check_id : RawCheckIds]
TrendOutputs ==
    {d \in RawOutputsOver(TrendRecords, MaxFindings, RawRepos) : d.has_results}

InitTrend ==
    /\ now = 0
    /\ utc_offset \in UtcOffsets
    /\ scan_results = <<>>
    /\ findings = <<>>
    /\ WriterInit
    /\ ReaderInit
    /\ CalcOff
    /\ MainOff

NextTrend ==
    \/ Tick
    \/ NextDay
    \/ \E data \in TrendOutputs : NoQuery /\ Parse(data)
    \/ NoQuery /\ InsertScanResult
    \/ NoQuery /\ InsertFinding
    \/ NoQuery /\ Commit
    \/ NoQuery /\ IngestReturn
    \/ \E repository \in Repositories \cup {Null}, days \in TrendWindows :
          NoIngest /\ StartTrend(repository, days)
    \/ NoIngest /\ StmtTrend
    \/ NoIngest /\ QueryReturn

SpecTrend == InitTrend /\ [][NextTrend]_vars

(***************************************************************************)
(* The webhook service: normalize_semgrep_results (src/main.py),           *)
(* run_semgrep (src/semgrep_runner.py), and the handlers of POST /webhook  *)
(* and GET /report.  A dict is a record whose DOMAIN is its keys.          *)
(***************************************************************************)
MainSeverities == {"ERROR", "WARNING", "INFO", "CRITICAL"}
MainPaths      == {"a.py", "b.py"}

\* One raw result record: r['check_id'], r['path'], r['start']['line'] (a
\* sequence of length 0 when absent), r['extra']['severity'], r['severity'].
\* A record has a severity of its own only where extra has none.
MainRecords ==
    [check_id : {"a"}, path : MainPaths \cup {Absent}, start_line : {<<>>, <<1>>},
     extra_severity : MainSeverities, severity : {Absent}]
    \cup [check_id : {"a"}, path : MainPaths \cup {Absent},
          start_line : {<<>>, <<1>>},
          extra_severity : {Absent}, severity : {Absent, "WARNING"}]

\* A scanner output file, with and without the key 'results'
MainOutputs ==
    {[results |-> rs] : rs \in SeqUpTo(MainRecords, MaxRecords)}
    \cup {[version |-> "1"]}

\* d.get(k): a missing key reads as None
GetNone(v) == IF v = Absent THEN Null ELSE v

\* one pass of the loop over raw_results: the item built from r
Item(r) ==
    [check_id   |-> GetNone(r.check_id),
     path       |-> GetNone(r.path),
     start_line |-> r.start_line,
     end_line   |-> <<>>,
     message    |-> Null,
     severity   |-> IF Truthy(GetNone(r.extra_severity))
                    THEN r.extra_severity
                    ELSE Or(r.severity, "INFO"),
     category   |-> Null,
     owasp      |-> Null,
     cwe        |-> Null]

\* mutant: the severities rank by name
severity_order_by_name(s) ==
    CASE s = "ERROR"   -> 0
      [] s = "INFO"    -> 1
      [] s = "WARNING" -> 2
      [] OTHER         -> 99

\* severity_order.get(s, 99)
severity_order(s) ==
    CASE s = "ERROR"   -> 0
      [] s = "WARNING" -> 1
      [] s = "INFO"    -> 2
      [] OTHER         -> 99

\* the place of a path string in Python's string order, over the paths of
\* the model and the empty string
PathRank(p) ==
    CASE p = ""     -> 0
      [] p = "a.py" -> 1
      [] p = "b.py" -> 2

\* the sort key of an item: f["path"] or "", f["start_line"] or 0
SortKey(f) ==
    <<severity_order(f.severity),
      PathRank(IF Truthy(f.path) THEN f.path ELSE ""),
      IF f.start_line = <<>> THEN 0 ELSE f.start_line[1]>>

\* tuple comparison of two sort keys
KeyLess(a, b) ==
    \/ a[1] < b[1]
    \/ a[1] = b[1] /\ a[2] < b[2]
    \/ a[1] = b[1] /\ a[2] = b[2] /\ a[3] < b[3]

\* x put into the sorted list after every item whose key is not greater
InsertItem(sorted, x) ==
    LET k == Cardinality({i \in DOMAIN sorted :
                             ~KeyLess(SortKey(x), SortKey(sorted[i]))})
    IN  SubSeq(sorted, 1, k) \o <<x>> \o SubSeq(sorted, k + 1, Len(sorted))

RECURSIVE SortItems(_)
\* list.sort(key=...): ascending by key, items of equal key in their
\* order in the list (the sort is stable)
SortItems(items) ==
    IF items = <<>> THEN <<>>
    ELSE InsertItem(SortItems(SubSeq(items, 1, Len(items) - 1)),
                    items[Len(items)])

CountSeverity(items, s) ==
    Cardinality({i \in DOMAIN items : items[i].severity = s})

normalize_semgrep_results(data) ==
    LET raw_results == Get(data, "results", <<>>)
        normalized  == SortItems([i \in DOMAIN raw_results |->
                                     Item(raw_results[i])])
        OnPath(n, p) == n.path = p
    IN  [results       |-> normalized,
         by_file       |->
             [p \in {normalized[i].path : i \in DOMAIN normalized} |->
                 SelectSeq(normalized, LAMBDA n : OnPath(n, p))],
         total         |-> Len(normalized),
         count_error   |-> CountSeverity(normalized, "ERROR"),
         count_warning |-> CountSeverity(normalized, "WARNING"),
         count_info    |-> CountSeverity(normalized, "INFO")]

\* How the scan of one request goes: semgrep runs and its output file is
\* read; the semgrep program is not found (FileNotFoundError); another
\* exception inside the try block; os.makedirs fails before it
ScanOutcomes == {"completed", "not_found", "failed", "makedirs_failed"}

\* the severity tally of run_semgrep: the three keys it starts with and
\* every other severity met
RunnerSeverity(finding) == Or(finding.extra_severity, "INFO")

RunnerTally(results) ==
    [s \in {"ERROR", "WARNING", "INFO"}
           \cup {RunnerSeverity(results[i]) : i \in DOMAIN results} |->
        Cardinality({i \in DOMAIN results : RunnerSeverity(results[i]) = s})]

\* what run_semgrep returns when no exception leaves it: the summary of
\* the scan, or the error dict of its except clauses
run_semgrep(outcome, scan_data) ==
    IF outcome = "completed"
    THEN LET results        == Get(scan_data, "results", <<>>)
             tally   == RunnerTally(results)
         IN  [status         |-> "completed",
              output_file    |-> "scan.json",
              total_findings |-> Len(results),
              severity       |-> tally,
              errors         |-> tally["ERROR"],
              warnings       |-> tally["WARNING"],
              infos          |-> tally["INFO"]]
    ELSE IF outcome = "not_found"
    THEN [status |-> "error", message |-> "Semgrep not installed"]
    ELSE [status |-> "error", message |-> "failed"]

\* The request body: payload['repository']['full_name'], payload['after']
Payloads == [full_name : {"o/r", "", Absent}, after : {"sha", Absent}]

\* How download_repo_zip ends: it returns, or raises with this message
Downloads == {"ok", "404 Not Found", "401 Bad credentials", "500 error"}

HTTPException(status_code, detail) ==
    [status_code |-> status_code, detail |-> detail]

MainRespond(op, result, normalized, response) ==
    /\ m_op' = op
    /\ m_result' = result
    /\ m_normalized' = normalized
    /\ m_response' = <<response>>
    /\ m_pc' = "done"
    /\ UNCHANGED <<clockVars, storeVars, writerVars, readerVars, calcVars,
                   m_data>>

\* POST /webhook
webhook_handler(payload, download, outcome) ==
    /\ m_pc = "ready"
    /\ LET repo       == GetNone(payload.full_name)
           commit_sha == GetNone(payload.after)
       IN  IF ~Truthy(repo)
           THEN MainRespond("webhook", <<>>, <<>>,
                            HTTPException(400, "repository.full_name"))
           ELSE IF ~Truthy(commit_sha)
           THEN MainRespond("webhook", <<>>, <<>>, HTTPException(400, "after"))
           ELSE IF download = "404 Not Found"
           THEN MainRespond("webhook", <<>>, <<>>, HTTPException(404, download))
           ELSE IF download = "401 Bad credentials"
           THEN MainRespond("webhook", <<>>, <<>>, HTTPException(401, download))
           ELSE IF download # "ok"
           THEN MainRespond("webhook", <<>>, <<>>, HTTPException(500, download))
           ELSE IF outcome = "makedirs_failed"
           THEN MainRespond("webhook", <<>>, <<>>, HTTPException(500, outcome))
           ELSE LET result     == run_semgrep(outcome, m_data)
                    normalized == normalize_semgrep_results(result)
                IN  MainRespond("webhook", <<result>>, <<normalized>>,
                        [status     |-> "ok",
                         repo       |-> repo,
                         commit     |-> commit_sha,
                         summary    |-> [total   |-> normalized.total,
                                         error   |-> normalized.count_error,
                                         warning |-> normalized.count_warning,
                                         info    |-> normalized.count_info],
                         report_url |-> "/report"])

\* GET /report, with result.json there (its content is m_data) or not
report(exists) ==
    /\ m_pc = "ready"
    /\ IF ~exists
       THEN MainRespond("report", <<>>, <<>>,
                        [has_result |-> FALSE, by_file |-> <<>>])
       ELSE LET normalized == normalize_semgrep_results(m_data)
            IN  MainRespond("report", <<>>, <<normalized>>,
                    [has_result |-> TRUE,
                     summary    |-> [total   |-> normalized.total,
                                     error   |-> normalized.count_error,
                                     warning |-> normalized.count_warning,
                                     info    |-> normalized.count_info],
                     by_file    |-> normalized.by_file])

(***************************************************************************)
(* SpecMain: one request to the webhook service, on every scanner output   *)
(* of at most MaxRecords records.                                          *)
(***************************************************************************)
InitMain ==
    /\ now = 0
    /\ utc_offset = 0
    /\ scan_results = <<>>
    /\ findings = <<>>
    /\ WriterInit
    /\ ReaderInit
    /\ CalcOff
    /\ m_pc = "ready"
    /\ m_op = "none"
    /\ m_data \in MainOutputs
    /\ m_result = <<>>
    /\ m_normalized = <<>>
    /\ m_response = <<>>

NextMain ==
    \/ \E payload \in Payloads, download \in Downloads, outcome \in ScanOutcomes :
          webhook_handler(payload, download, outcome)
    \/ \E exists \in BOOLEAN : report(exists)

SpecMain == InitMain /\ [][NextMain]_vars

(***************************************************************************)
(* Properties.                                                             *)
(***************************************************************************)
Errors == {"IntegrityError", "OperationalError"}

\* the tables as a call found them hold a row with this scan_id
StoredBefore(scan_id) ==
    \E i \in DOMAIN call_scan_results : call_scan_results[i].scan_id = scan_id

\* C1: every row stored in scan_results has
\* total_findings = error_count + warning_count + info_count, whatever
\* severities the raw records carried.
C1_TotalIsSumOfCounts ==
    \A i \in DOMAIN scan_results :
        scan_results[i].total_findings =
            scan_results[i].error_count + scan_results[i].warning_count
            + scan_results[i].info_count

\* C2: save_scan_result with a scan_id the store already holds ends in an
\* error and leaves both tables as it found them: the original row and its
\* findings stay, none of the new findings is stored.
C2_DuplicateRejected ==
    (/\ w_pc \in {"insert", "returned"}
     /\ StoredBefore(scan_result[1].scan_id))
    => /\ w_pc = "returned"
       /\ w_error \in Errors
       /\ scan_results = call_scan_results
       /\ findings = call_findings
       /\ txn_scan_results = <<>>
       /\ txn_findings = <<>>

\* C2 witness: a call that brought findings of its own was rejected for its
\* scan_id, which a stored scan with findings already had.
C2_Witness ==
    /\ w_pc = "returned"
    /\ w_error = "IntegrityError"
    /\ StoredBefore(scan_result[1].scan_id)
    /\ Len(parsed_findings) > 0
    /\ \E i \in DOMAIN findings : findings[i].scan_id = scan_result[1].scan_id

\* C3: any two calls of parse_semgrep_output return distinct scan_ids.
C3_ScanIdsDistinct ==
    \A i, j \in DOMAIN issued : i # j => issued[i] # issued[j]

\* the finding rows a call is to store
RowsOfCall ==
    [i \in DOMAIN parsed_findings |->
        FindingRow(scan_result[1].scan_id, parsed_findings[i])]

\* C4: save_scan_result fully succeeds or fully fails: when it has ended in
\* an error the tables are as the call found them, when it has ended well
\* they hold the summary row and every finding row of the call in addition;
\* before its end nothing of it is committed.
C4_InsertAllOrNothing ==
    /\ w_pc = "insert" =>
          /\ scan_results = call_scan_results
          /\ findings = call_findings
    /\ (w_pc = "returned" /\ w_error \in Errors) =>
          /\ scan_results = call_scan_results
          /\ findings = call_findings
    /\ (w_pc = "returned" /\ w_error = "ok") =>
          /\ scan_results = Append(call_scan_results, scan_result[1])
          /\ findings = call_findings \o RowsOfCall

\* C4 witness: the call failed on its second finding row (severity None),
\* after its summary row and its first finding row had been written.
C4_Witness ==
    /\ w_pc = "returned"
    /\ w_error = "IntegrityError"
    /\ ~StoredBefore(scan_result[1].scan_id)
    /\ Len(parsed_findings) = 2
    /\ parsed_findings[1].severity # Null
    /\ parsed_findings[2].severity = Null

\* get_repository_stats with all four statements on the same tables
StatsResults(sr, fd, repository) ==
    {StatsDict(repository, CountScans(sr, repository),
               SeverityCounts(sr, fd, repository), top, last) :
        top \in TopIssuesResults(sr, fd, repository),
        last \in LastScanResults(sr, repository)}

\* the tables after the first n commits
CommittedScans(n) == SubSeq(scan_results, 1, n)
CommittedFindings(n) ==
    LET in_n(row) == \E i \in 1..n : scan_results[i].scan_id = row.scan_id
    IN  SelectSeq(findings, in_n)

\* C5: a stats query that runs while scans are inserted sees each scan whole
\* or not at all: what it returns is what the tables held after some number
\* of commits.
C5_StatsIsSnapshot ==
    stats # <<>> =>
        \E n \in 0..Len(scan_results) :
            stats[1] \in StatsResults(CommittedScans(n), CommittedFindings(n),
                                      r_repository)

Penalty(summary) ==
    10 * summary.error_count + 5 * summary.warning_count + summary.info_count

\* C6: calculate_score returns max(0, 100 - (10*error_count +
\* 5*warning_count + info_count)), a value in 0..100; 2 ERROR, 3 WARNING and
\* 1 INFO give 64.
C6_ScoreFormula ==
    c_pc \in {"scored", "graded"} =>
        /\ c_score = (IF Penalty(c_summary) >= 100 THEN 0
                      ELSE 100 - Penalty(c_summary))
        /\ c_score \in 0..100
        /\ (c_summary = [error_count |-> 2, warning_count |-> 3, info_count |-> 1]
               => c_score = 64)

\* C6 witness: the score of 2 ERROR, 3 WARNING, 1 INFO has been computed.
C6_Witness ==
    /\ c_pc = "scored"
    /\ c_summary = [error_count |-> 2, warning_count |-> 3, info_count |-> 1]
    /\ c_score = 64

\* C7: get_grade gives A from 90, B from 80, C from 70, D from 60 and F
\* below; all-zero counts give 100 and A, a penalty of 100 or more gives 0
\* and F.
C7_GradeBands ==
    c_pc = "graded" =>
        /\ c_grade = "A" <=> c_score >= 90
        /\ c_grade = "B" <=> (c_score >= 80 /\ c_score < 90)
        /\ c_grade = "C" <=> (c_score >= 70 /\ c_score < 80)
        /\ c_grade = "D" <=> (c_score >= 60 /\ c_score < 70)
        /\ c_grade = "F" <=> c_score < 60
        /\ (Penalty(c_summary) = 0 => c_score = 100 /\ c_grade = "A")
        /\ (Penalty(c_summary) >= 100 => c_score = 0 /\ c_grade = "F")

\* C7 witness: a summary at the lower edge of band B (penalty 20) was graded.
C7_Witness ==
    /\ c_pc = "graded"
    /\ Penalty(c_summary) = 20
    /\ c_score = 80
    /\ c_grade = "B"

\* two runs of the calculator, the earlier one on the smaller error_count
FewerErrorsBefore ==
    /\ c_pc \in {"scored", "graded"}
    /\ c_prev # <<>>
    /\ c_prev[1].summary.error_count < c_summary.error_count

\* C8 as stated: of two summaries that differ in error_count only, the one
\* with fewer errors has the strictly greater score.
C8_StrictlyMonotone ==
    FewerErrorsBefore => c_prev[1].score > c_score

\* C8 amended: the one with fewer errors has a score at least as great, and
\* strictly greater unless its score is 0 already.
C8_MonotoneToFloor ==
    FewerErrorsBefore =>
        /\ c_prev[1].score >= c_score
        /\ (c_prev[1].score > 0 => c_prev[1].score > c_score)

\* C8 witness: more errors took a positive score down to the floor.
C8_Witness ==
    /\ FewerErrorsBefore
    /\ c_prev[1].score > 0
    /\ c_score = 0

ReportDone == r_op = "report" /\ r_pc = "done"

Grades == {"A", "B", "C", "D", "F"}

\* the rows of scan_results that belong to the repository
ScansOf(repository) ==
    {i \in DOMAIN scan_results : scan_results[i].repository = repository}

\* C9: the report of a repository without a stored scan has score 0, grade
\* "N/A", no last_scan and an empty trend; with a stored scan the grade is
\* one of A..F, and 100 and A when no scan of it has a finding.
C9_NoDataSentinel ==
    ReportDone =>
        IF ScansOf(r_repository) = {}
        THEN /\ score = 0
             /\ grade = "N/A"
             /\ stats[1].last_scan = <<>>
             /\ trend = <<>>
        ELSE /\ grade \in Grades
             /\ (\A i \in ScansOf(r_repository) :
                     scan_results[i].total_findings = 0)
                => (score = 100 /\ grade = "A")

\* C9 witness: a report for a repository without scans, made while the
\* store holds a scan of another repository.
C9_Witness ==
    /\ ReportDone
    /\ ScansOf(r_repository) = {}
    /\ scan_results # <<>>
    /\ grade = "N/A"

\* the finding rows of the repository's scans that have the severity
FindingsOf(repository, severity) ==
    {i \in DOMAIN findings :
        /\ findings[i].severity = severity
        /\ \E j \in ScansOf(repository) :
              scan_results[j].scan_id = findings[i].scan_id}

CumulativeCounts(repository) ==
    [error_count   |-> Cardinality(FindingsOf(repository, "ERROR")),
     warning_count |-> Cardinality(FindingsOf(repository, "WARNING")),
     info_count    |-> Cardinality(FindingsOf(repository, "INFO"))]

\* C10: with a stored scan, the report's security_score is calculate_score
\* of the ERROR, WARNING and INFO findings of all stored scans of the
\* repository together.
C10_ScoreIsCumulative ==
    (ReportDone /\ ScansOf(r_repository) # {}) =>
        score = calculate_score(CumulativeCounts(r_repository))

\* C10 witness: a report over two scans whose score is below what the
\* counts of either scan alone would give.
C10_Witness ==
    /\ ReportDone
    /\ Cardinality(ScansOf(r_repository)) = 2
    /\ \A i \in ScansOf(r_repository) :
          score < calculate_score(scan_results[i])

\* the input records of the request's normalizer call, as items
InputItems ==
    LET raw == Get(m_data, "results", <<>>)
    IN  [i \in DOMAIN raw |-> Item(raw[i])]

Occurrences(items, x) == Cardinality({i \in DOMAIN items : items[i] = x})

\* rank of a severity, path and line of an item as the sort contract
\* names them
ContractRank(s) ==
    IF s = "ERROR" THEN 1 ELSE IF s = "WARNING" THEN 2
    ELSE IF s = "INFO" THEN 3 ELSE 4
ContractPath(f) == IF f.path = Null THEN PathRank("") ELSE PathRank(f.path)
ContractLine(f) == IF f.start_line = <<>> THEN 0 ELSE f.start_line[1]

\* a comes before b or ties with it
ContractOrdered(a, b) ==
    \/ ContractRank(a.severity) < ContractRank(b.severity)
    \/ /\ ContractRank(a.severity) = ContractRank(b.severity)
       /\ \/ ContractPath(a) < ContractPath(b)
          \/ /\ ContractPath(a) = ContractPath(b)
             /\ ContractLine(a) <= ContractLine(b)

NormalizedReport == m_op = "report" /\ m_normalized # <<>>

\* C11: the finding list normalize_semgrep_results returns is a
\* permutation of the input records, in ascending order of severity rank
\* (ERROR, WARNING, INFO, any other value), then path (absent as the empty
\* string), then start_line (absent as 0).
C11_SortedPermutation ==
    NormalizedReport =>
        LET out == m_normalized[1].results
        IN  /\ Len(out) = Len(InputItems)
            /\ \A i \in DOMAIN out :
                  Occurrences(out, out[i]) = Occurrences(InputItems, out[i])
            /\ \A i, j \in DOMAIN out : i < j => ContractOrdered(out[i], out[j])

\* C11 witness: an input of an INFO, an ERROR and a WARNING record in this
\* order, one of them without path, comes out as ERROR, WARNING, INFO.
C11_Witness ==
    /\ NormalizedReport
    /\ Len(InputItems) = 3
    /\ InputItems[1].severity = "INFO"
    /\ InputItems[2].severity = "ERROR"
    /\ InputItems[3].severity = "WARNING"
    /\ \E i \in 1..3 : InputItems[i].path = Null
    /\ m_normalized[1].results =
          <<InputItems[2], InputItems[3], InputItems[1]>>

ClosedSeverities == {"ERROR", "WARNING", "INFO"}

\* C12: every finding row in the store has a severity of ERROR, WARNING or
\* INFO, whatever severities the ingested raw records carried.
C12_SeverityClosed ==
    \A i \in DOMAIN findings : findings[i].severity \in ClosedSeverities

\* the place of a rule_id in string order, over the rule ids of the model
RuleRank(rule_id) ==
    CASE rule_id = "a" -> 1
      [] rule_id = "b" -> 2
      [] OTHER -> 3

\* g comes before h in the ranking: higher count, or equal count and
\* smaller rule_id
RankedBefore(g, h) ==
    \/ g.count > h.count
    \/ g.count = h.count /\ RuleRank(g.rule_id) < RuleRank(h.rule_id)

\* C13: top_issues of a get_repository_stats result holds at most 5
\* entries, the first of the repository's rule groups in the ranking by
\* count descending and rule_id ascending, in that ranking's order.
C13_TopIssuesRanked ==
    (r_op = "stats" /\ stats # <<>>) =>
        LET top == stats[1].top_issues
            G   == RuleGroups(scan_results, findings, r_repository)
        IN  /\ Len(top) <= TopLimit
            /\ \A i \in DOMAIN top : top[i] \in G
            /\ \A i, j \in DOMAIN top : i < j => RankedBefore(top[i], top[j])
            /\ \A g \in G : (\A i \in DOMAIN top : top[i] # g) =>
                  /\ Len(top) = TopLimit
                  /\ \A i \in DOMAIN top : RankedBefore(top[i], g)

\* the UTC time at which a stored scan was taken
TakenAt(row) == row.timestamp - utc_offset

\* the scans of the repository (of every repository when none is given)
\* taken inside [t - days, t], to the second
WindowScans(sr, repository, days, t) ==
    {i \in DOMAIN sr :
        /\ repository # Null => sr[i].repository = repository
        /\ DateTime(TakenAt(sr[i])) >= DateTime(t) - days * SecondsPerDay
        /\ DateTime(TakenAt(sr[i])) <= DateTime(t)}

\* one bucket per calendar date of those scans, dates ascending, with the
\* sums over exactly those scans
WindowBuckets(sr, repository, days, t) ==
    LET W     == WindowScans(sr, repository, days, t)
        dates == SortedSeq({Date(sr[i].timestamp) : i \in W})
        On(d) == {i \in W : Date(sr[i].timestamp) = d}
    IN  [k \in DOMAIN dates |->
            [date     |-> dates[k],
             errors   |-> SumOver(On(dates[k]), [i \in W |-> sr[i].error_count]),
             warnings |-> SumOver(On(dates[k]), [i \in W |-> sr[i].warning_count]),
             infos    |-> SumOver(On(dates[k]), [i \in W |-> sr[i].info_count])]]

\* C14: the list get_trend_data returns is one bucket per calendar date
\* with a scan of the repository taken inside [now - windowDays, now], in
\* ascending date order, each with the sums of the counts of exactly those
\* scans; a scan taken outside that window is in no bucket.
C14_TrendWindow ==
    [][(r_pc = "trend" /\ r_pc' = "done") =>
          trend' = WindowBuckets(scan_results, r_repository, r_days, now)]_vars

StatsDone == r_op = "stats" /\ r_pc = "done"

\* C15: with exactly one stored scan of the repository, the dict
\* get_repository_stats returns has total_scans 1, the ERROR, WARNING and
\* INFO counts of the scan's row (0 for a severity not listed) and
\* last_scan.findings equal to the row's total_findings.
C15_RoundTrip ==
    (StatsDone /\ Cardinality(ScansOf(r_repository)) = 1) =>
        LET row == scan_results[CHOOSE i \in ScansOf(r_repository) : TRUE]
            st  == stats[1]
        IN  /\ st.total_scans = 1
            /\ Get(st.severity_distribution, "ERROR", 0) = row.error_count
            /\ Get(st.severity_distribution, "WARNING", 0) = row.warning_count
            /\ Get(st.severity_distribution, "INFO", 0) = row.info_count
            /\ st.last_scan # <<>>
            /\ st.last_scan[1].findings = row.total_findings

\* C15 witness: statistics of a repository with one stored scan of an
\* ERROR and an INFO finding, next to a scan of another repository.
C15_Witness ==
    /\ StatsDone
    /\ Cardinality(ScansOf(r_repository)) = 1
    /\ Len(scan_results) = 2
    /\ stats[1].total_scans = 1
    /\ stats[1].last_scan[1].findings = 2
    /\ Get(stats[1].severity_distribution, "ERROR", 0) = 1
    /\ Get(stats[1].severity_distribution, "INFO", 0) = 1

\* C16: an ingestion of a raw output without the key 'results' ends in
\* the parser with a ParseError, with no scan summary and no row written;
\* a raw output with an empty 'results' list is parsed into a summary
\* with total_findings 0, all counts 0 and no findings.
C16_MissingResultsIsParseError ==
    /\ (w_pc # "idle" /\ ~w_has_results) =>
          /\ w_pc = "returned"
          /\ w_error = "ParseError"
          /\ scan_result = <<>>
          /\ txn_scan_results = <<>>
    /\ (w_pc = "parsed" /\ w_has_results /\ parsed_findings = <<>>) =>
          /\ scan_result[1].total_findings = 0
          /\ scan_result[1].error_count = 0
          /\ scan_result[1].warning_count = 0
          /\ scan_result[1].info_count = 0

\* the security_score generate_summary_report gives for the repository
\* on tables sr and fd that hold a scan of it
ReportScores(sr, fd, repository) ==
    {calculate_score(last_scan_result(st)) : st \in StatsResults(sr, fd, repository)}

\* C17: for a repository with a stored scan, no step makes the report's
\* security_score higher than it was: every insert leaves it equal or
\* lower.
C17_ScoreNeverIncreases ==
    [][\A repository \in Repositories :
          CountScans(scan_results, repository) >= 1 =>
              \A before \in ReportScores(scan_results, findings, repository),
                 after \in ReportScores(scan_results', findings', repository) :
                  after <= before]_vars

\* C17 witness: a successful insert of a scan for a repository that had a
\* stored scan has lowered its score.
C17_Witness ==
    /\ w_pc = "returned"
    /\ w_error = "ok"
    /\ CountScans(call_scan_results, scan_result[1].repository) >= 1
    /\ \E before \in ReportScores(call_scan_results, call_findings,
                                  scan_result[1].repository),
          after \in ReportScores(scan_results, findings,
                                 scan_result[1].repository) :
          after < before

WebhookOk ==
    /\ m_op = "webhook"
    /\ m_response # <<>>
    /\ "status" \in DOMAIN m_response[1]
    /\ m_response[1].status = "ok"

\* C18: a webhook response with status "ok" answers a scan that
\* run_semgrep completed, and its summary counts are the number of
\* findings, and of ERROR, WARNING and INFO findings, in the scanner
\* output of that scan.
C18_WebhookSummaryIsScanOutput ==
    WebhookOk =>
        /\ m_result[1].status # "error"
        /\ m_response[1].summary =
              [total   |-> Len(InputItems),
               error   |-> CountSeverity(InputItems, "ERROR"),
               warning |-> CountSeverity(InputItems, "WARNING"),
               info    |-> CountSeverity(InputItems, "INFO")]

=============================================================================
